---- MODULE Spec2Model ----
(***************************************************************************)
(* Model of differometor/setups.py: the Setup graph store (add, space),    *)
(* its parameter list, and differometor_to_finesse.                        *)
(*                                                                         *)
(* Representation.  A Python string is the sequence of its '_'-separated   *)
(* segments (what str.split('_') returns), so "a" is <<"a">>, "a_b" is     *)
(* <<"a","b">>, '_' in s is Len(s) > 1 and f"{s}_{t}" is s \o t.  None is   *)
(* the empty sequence, which is no string.  Component kinds and property   *)
(* names are dictionary keys and are TLA+ strings.  A property value is a  *)
(* rational <<n, d>> in lowest terms with d > 0.  A dict is kept in        *)
(* insertion order: nodes and edges are sequences of entries, and a store  *)
(* to an existing key keeps the key's position.                            *)
(*                                                                         *)
(* op is the operation called last, err the error it raised ("ok" when it  *)
(* returned) and finesse the string it returned, as the sequence of its    *)
(* lines (add and space return nothing).  created lists the calls that     *)
(* assigned a node or an edge, in call order.                              *)
(*                                                                         *)
(* constrain_inter_grid_cell_spaces looks inside the names ("mr" in name,  *)
(* name.split('_')[0][-1]), so its arguments keep a name as the sequence   *)
(* of its characters.  component_property_pairs and optimized_properties   *)
(* are the arguments of the call, constrained_pairs the list it returned,  *)
(* and size the grid size the argument list was generated for (0: a list   *)
(* not generated by a grid).                                               *)
(***************************************************************************)
EXTENDS Integers, Sequences, FiniteSets, TLC

VARIABLES nodes, edges, parameters, created, op, err, finesse

VARIABLES component_property_pairs, optimized_properties, constrained_pairs, size

\* the arguments and the result of constrain_inter_grid_cell_spaces
grouper == <<component_property_pairs, optimized_properties, constrained_pairs, size>>

vars == <<nodes, edges, parameters, created, op, err, finesse, grouper>>

-----------------------------------------------------------------------------
(* Bounds *)

\* storing calls per behaviour of Spec
MaxCalls == 3
\* storing calls per behaviour of SpecSchema
MaxSchemaCalls == 2

-----------------------------------------------------------------------------
(* Values *)

None == <<>>

Abs(x) == IF x < 0 THEN -x ELSE x

RECURSIVE GCD(_, _)
GCD(x, y) == IF y = 0 THEN x ELSE GCD(y, x % y)

\* the rational n/d (d # 0) in lowest terms
Rat(n, d) ==
    LET g == GCD(Abs(n), Abs(d))
        s == IF d < 0 THEN -1 ELSE 1
    IN  <<(s * n) \div g, (s * d) \div g>>

Num(n) == <<n, 1>>
Zero == Num(0)
Half == Rat(1, 2)
One == Num(1)

RSub(x, y) ==
    LET g == GCD(x[2], y[2])
        l == (x[2] \div g) * y[2]
    IN  Rat(x[1] * (l \div x[2]) - y[1] * (l \div y[2]), l)

RMul(x, y) ==
    LET g1 == GCD(Abs(x[1]), y[2])
        g2 == GCD(Abs(y[1]), x[2])
        h1 == IF g1 = 0 THEN 1 ELSE g1
        h2 == IF g2 = 0 THEN 1 ELSE g2
    IN  Rat((x[1] \div h1) * (y[1] \div h2), (x[2] \div h2) * (y[2] \div h1))

\* x / y for y # 0
RDiv(x, y) == RMul(x, Rat(y[2], y[1]))

-----------------------------------------------------------------------------
(* Strings *)

NameA == <<"a">>
NameB == <<"b">>
NameC == <<"c">>

HasSep(s) == Len(s) > 1

\* f"{source}_{target}"
Compound(source, target) == source \o target

\* s.split('_')[0] and s.split('_')[-1], as strings
Head0(s) == <<s[1]>>
Tail0(s) == <<s[Len(s)]>>

-----------------------------------------------------------------------------
(* Insertion-ordered dicts *)

Keys(d) == {d[i].key : i \in 1..Len(d)}

IndexOf(d, k) == CHOOSE i \in 1..Len(d) : d[i].key = k

Get(d, k) == d[IndexOf(d, k)].data

\* d[k] = v
Put(d, k, v) ==
    IF k \in Keys(d)
    THEN [d EXCEPT ![IndexOf(d, k)] = [key |-> k, data |-> v]]
    ELSE Append(d, [key |-> k, data |-> v])

EmptyProps == [k \in {} |-> Zero]

\* the merge with the operands swapped, {**p, **d}: the defaults win
Merge_DefaultsWin(d, p) ==
    [k \in (DOMAIN d) \cup (DOMAIN p) |-> IF k \in DOMAIN d THEN d[k] ELSE p[k]]

\* {**d, **p}
Merge(d, p) ==
    [k \in (DOMAIN d) \cup (DOMAIN p) |-> IF k \in DOMAIN p THEN p[k] ELSE d[k]]

\* p.pop(k)
Pop(p, k) == [j \in (DOMAIN p) \ {k} |-> p[j]]

-----------------------------------------------------------------------------
(* Setup.__init__ *)

default_properties ==
    [frequency |-> [frequency |-> Num(1)],
     laser |-> [power |-> Num(1), phase |-> Zero],
     squeezer |-> [db |-> Zero, angle |-> Num(90)],
     mirror |-> [loss |-> Rat(1, 200000), reflectivity |-> Half, tuning |-> Zero],
     beamsplitter |-> [loss |-> Rat(1, 200000), reflectivity |-> Half,
                       tuning |-> Zero, alpha |-> Num(45)],
     free_mass |-> [mass |-> Num(40)],
     signal |-> [amplitude |-> Num(1), phase |-> Zero],
     space |-> [length |-> Zero, refractive_index |-> Num(1)],
     detector |-> EmptyProps,
     qnoised |-> EmptyProps,
     qhd |-> [phase |-> Zero],
     nothing |-> EmptyProps,
     directional_beamsplitter |-> EmptyProps]

Kinds == DOMAIN default_properties

\* list(default_properties[component].keys()): the record's key order
KeyOrder(component) ==
    CASE component = "frequency" -> <<"frequency">>
      [] component = "laser" -> <<"power", "phase">>
      [] component = "squeezer" -> <<"db", "angle">>
      [] component = "mirror" -> <<"loss", "reflectivity", "tuning">>
      [] component = "beamsplitter" -> <<"loss", "reflectivity", "tuning", "alpha">>
      [] component = "free_mass" -> <<"mass">>
      [] component = "signal" -> <<"amplitude", "phase">>
      [] component = "space" -> <<"length", "refractive_index">>
      [] component = "qhd" -> <<"phase">>
      [] OTHER -> <<>>

Init ==
    /\ nodes = <<>>
    /\ edges = <<>>
    /\ parameters = <<>>
    /\ created = <<>>
    /\ op = "init"
    /\ err = "ok"
    /\ finesse = <<>>
    /\ component_property_pairs = <<>>
    /\ optimized_properties = {}
    /\ constrained_pairs = <<>>
    /\ size = 0

-----------------------------------------------------------------------------
(* Setup.add *)

\* the pre-pass without its first check: both keys take the transmissivity branch
Prepass_NoConflict(component, properties) ==
    IF component \in {"mirror", "beamsplitter"}
    THEN IF "transmissivity" \in DOMAIN properties
         THEN LET m == Merge(default_properties[component], properties)
                  p == Pop(m, "transmissivity")
                  d == RSub(One, p["loss"])
              IN  IF d = Zero
                  THEN [err |-> "ZeroDivisionError", properties |-> properties]
                  ELSE [err |-> "ok",
                        properties |->
                            [p EXCEPT !["reflectivity"] =
                                RDiv(RSub(RSub(One, m["transmissivity"]), p["loss"]), d)]]
         ELSE IF "reflectivity" \in DOMAIN properties
         THEN LET m == Merge(default_properties[component], properties)
                  d == RSub(One, m["loss"])
              IN  IF d = Zero
                  THEN [err |-> "ZeroDivisionError", properties |-> properties]
                  ELSE [err |-> "ok",
                        properties |->
                            [m EXCEPT !["reflectivity"] = RDiv(m["reflectivity"], d)]]
         ELSE [err |-> "ok", properties |-> properties]
    ELSE [err |-> "ok", properties |-> properties]

\* the mirror/beamsplitter pre-pass on **properties
Prepass(component, properties) ==
    IF component \in {"mirror", "beamsplitter"}
    THEN IF "reflectivity" \in DOMAIN properties /\ "transmissivity" \in DOMAIN properties
         THEN [err |-> "ConflictError", properties |-> properties]
         ELSE IF "transmissivity" \in DOMAIN properties
         THEN LET m == Merge(default_properties[component], properties)
                  p == Pop(m, "transmissivity")
                  d == RSub(One, p["loss"])
              IN  IF d = Zero
                  THEN [err |-> "ZeroDivisionError", properties |-> properties]
                  ELSE [err |-> "ok",
                        properties |->
                            [p EXCEPT !["reflectivity"] =
                                RDiv(RSub(RSub(One, m["transmissivity"]), p["loss"]), d)]]
         ELSE IF "reflectivity" \in DOMAIN properties
         THEN LET m == Merge(default_properties[component], properties)
                  d == RSub(One, m["loss"])
              IN  IF d = Zero
                  THEN [err |-> "ZeroDivisionError", properties |-> properties]
                  ELSE [err |-> "ok",
                        properties |->
                            [m EXCEPT !["reflectivity"] = RDiv(m["reflectivity"], d)]]
         ELSE [err |-> "ok", properties |-> properties]
    ELSE [err |-> "ok", properties |-> properties]

\* the length check with < for !=: an extra key passes
SchemaMismatch_Less(component, properties) ==
    Cardinality(DOMAIN properties) < Cardinality(DOMAIN default_properties[component])

\* len(properties) != len(self.default_properties[component])
SchemaMismatch(component, properties) ==
    Cardinality(DOMAIN properties) # Cardinality(DOMAIN default_properties[component])

\* [(name, property_name) for property_name in properties.keys()], for a
\* record that passed the schema check: its keys are the default record's
Entries(name, component) ==
    [i \in 1..Len(KeyOrder(component)) |-> <<name, KeyOrder(component)[i]>>]

\* the extension without the test of the kind: signal and frequency nodes
\* contribute their properties too
AddEntries_AnyKind(component, name, optimizable) ==
    IF optimizable THEN Entries(name, component) ELSE <<>>

\* the entries add appends to self.parameters
AddEntries(component, name, optimizable) ==
    IF component # "signal" /\ component # "frequency" /\ optimizable
    THEN Entries(name, component)
    ELSE <<>>

\* self._nodes[name] = {'component': ..., 'properties': ...}; an absent key is None
NewNode(component, properties) ==
    [component |-> component, properties |-> properties, target |-> None,
     target_property |-> None, port |-> None, direction |-> None,
     auxiliary |-> None, detector1 |-> None, detector2 |-> None]

\* Edges.__getitem__: KeyError, or the ValueError of unpacking split('_')
EdgeLookup(es, edge) ==
    IF Len(edge) # 2 THEN "UnpackError"
    ELSE IF <<Head0(edge), Tail0(edge)>> \in Keys(es) THEN "ok"
    ELSE "KeyError"

\* if target is not None: ...   (ns: the node names, the new node included)
SetTarget(d, target, ns, es) ==
    IF target = None THEN [err |-> "ok", d |-> d]
    ELSE IF HasSep(target)
    THEN IF Tail0(target) \notin {<<"amplitude">>, <<"frequency">>}
         THEN CASE EdgeLookup(es, target) = "ok" ->
                       [err |-> "ok", d |-> [d EXCEPT !.target = target]]
                [] EdgeLookup(es, target) = "KeyError" ->
                       [err |-> "UnresolvedReferenceError", d |-> d]
                [] OTHER -> [err |-> "UnpackError", d |-> d]
         ELSE IF Head0(target) \in ns
              THEN [err |-> "ok",
                    d |-> [d EXCEPT !.target = Head0(target),
                                    !.target_property = Tail0(target)]]
              ELSE [err |-> "UnresolvedReferenceError", d |-> d]
    ELSE IF target \in ns
         THEN [err |-> "ok", d |-> [d EXCEPT !.target = target]]
         ELSE [err |-> "UnresolvedReferenceError", d |-> d]

Ports == {<<"left">>, <<"top">>, <<"right">>, <<"bottom">>}
Directions == {<<"in">>, <<"out">>}
\* [True, False]
Booleans == {<<"True">>, <<"False">>}

SetPort(d, port) ==
    IF port = None THEN [err |-> "ok", d |-> d]
    ELSE IF port \notin Ports THEN [err |-> "InvalidEnumError", d |-> d]
    ELSE [err |-> "ok", d |-> [d EXCEPT !.port = port]]

SetDirection(d, direction) ==
    IF direction = None THEN [err |-> "ok", d |-> d]
    ELSE IF direction \notin Directions THEN [err |-> "InvalidEnumError", d |-> d]
    ELSE [err |-> "ok", d |-> [d EXCEPT !.direction = direction]]

SetAuxiliary(d, auxiliary) ==
    IF auxiliary = None THEN [err |-> "ok", d |-> d]
    ELSE IF auxiliary \notin Booleans THEN [err |-> "InvalidEnumError", d |-> d]
    ELSE [err |-> "ok", d |-> [d EXCEPT !.auxiliary = auxiliary]]

SetDetector1(d, detector1, ns) ==
    IF detector1 = None THEN [err |-> "ok", d |-> d]
    ELSE IF detector1 \notin ns THEN [err |-> "UnresolvedReferenceError", d |-> d]
    ELSE [err |-> "ok", d |-> [d EXCEPT !.detector1 = detector1]]

SetDetector2(d, detector2, ns) ==
    IF detector2 = None THEN [err |-> "ok", d |-> d]
    ELSE IF detector2 \notin ns THEN [err |-> "UnresolvedReferenceError", d |-> d]
    ELSE [err |-> "ok", d |-> [d EXCEPT !.detector2 = detector2]]

\* lines 114-159: the attribute blocks in code order; a raise leaves the
\* node record with the attributes set so far
Attributes(d0, call, ns, es) ==
    LET r1 == SetTarget(d0, call.target, ns, es)
        r2 == IF r1.err = "ok" THEN SetPort(r1.d, call.port) ELSE r1
        r3 == IF r2.err = "ok" THEN SetDirection(r2.d, call.direction) ELSE r2
        r4 == IF r3.err = "ok" THEN SetAuxiliary(r3.d, call.auxiliary) ELSE r3
        r5 == IF r4.err = "ok" THEN SetDetector1(r4.d, call.detector1, ns) ELSE r4
        r6 == IF r5.err = "ok" THEN SetDetector2(r5.d, call.detector2, ns) ELSE r5
    IN  r6

\* Setup.add on the store (ns, es, ps): the store it leaves, the error it
\* raises ("ok": it returns), and whether it assigned self._nodes[name]
add(ns, es, ps, call) ==
    LET unchanged(e) == [nodes |-> ns, parameters |-> ps, err |-> e, stored |-> FALSE]
        pre == Prepass(call.component, call.properties)
    IN  IF HasSep(call.name) THEN unchanged("NamingError")
        ELSE IF pre.err # "ok" THEN unchanged(pre.err)
        ELSE IF call.component \notin Kinds THEN unchanged("UnknownComponentError")
        ELSE LET properties == Merge(default_properties[call.component], pre.properties)
             IN  IF SchemaMismatch(call.component, properties)
                 THEN unchanged("SchemaMismatchError")
                 ELSE LET r == Attributes(NewNode(call.component, properties), call,
                                          Keys(ns) \cup {call.name}, es)
                      IN  [nodes |-> Put(ns, call.name, r.d),
                           parameters |->
                               ps \o AddEntries(call.component, call.name, call.optimizable),
                           err |-> r.err,
                           stored |-> TRUE]

-----------------------------------------------------------------------------
(* Setup.space *)

space(ns, es, ps, call) ==
    LET unchanged(e) == [edges |-> es, parameters |-> ps, err |-> e, stored |-> FALSE]
        properties == Merge(default_properties["space"], call.properties)
    IN  IF call.source \notin Keys(ns) THEN unchanged("UnresolvedReferenceError")
        ELSE IF call.target \notin Keys(ns) THEN unchanged("UnresolvedReferenceError")
        ELSE IF SchemaMismatch("space", properties) THEN unchanged("SchemaMismatchError")
        ELSE [edges |-> Put(es, <<call.source, call.target>>,
                            [properties |-> properties,
                             source_port |-> call.source_port,
                             target_port |-> call.target_port]),
              parameters |->
                  ps \o (IF call.optimizable
                         THEN Entries(Compound(call.source, call.target), "space")
                         ELSE <<>>),
              err |-> "ok",
              stored |-> TRUE]

-----------------------------------------------------------------------------
(* Calls *)

AddCall(component, name, optimizable, target, port, direction, auxiliary, detector1, detector2, properties) ==
    [op |-> "add", component |-> component, name |-> name,
     optimizable |-> optimizable, target |-> target, port |-> port,
     direction |-> direction, auxiliary |-> auxiliary, detector1 |-> detector1,
     detector2 |-> detector2, properties |-> properties]

\* add(component, name, optimizable=..., **properties)
Plain(component, name, optimizable, properties) ==
    AddCall(component, name, optimizable, None, None, None, None, None, None, properties)

SpaceCall(source, target, optimizable, source_port, target_port, properties) ==
    [op |-> "space", source |-> source, target |-> target,
     optimizable |-> optimizable, source_port |-> source_port,
     target_port |-> target_port, properties |-> properties]

Prop1(k, v) == [j \in {k} |-> v]
Prop2(k1, v1, k2, v2) == [j \in {k1, k2} |-> IF j = k1 THEN v1 ELSE v2]

-----------------------------------------------------------------------------
(* Actions *)

\* one call S.add(...); max bounds the number of storing calls
Add(call, max) ==
    LET r == add(nodes, edges, parameters, call)
    IN  /\ r.stored => Len(created) < max
        /\ nodes' = r.nodes
        /\ parameters' = r.parameters
        /\ created' = IF r.stored
                      THEN Append(created, [key |-> call.name, kind |-> "node",
                                            optimizable |-> call.optimizable,
                                            err |-> r.err])
                      ELSE created
        /\ op' = "add"
        /\ err' = r.err
        /\ finesse' = <<>>
        /\ UNCHANGED <<edges, grouper>>

\* one call S.space(...)
Space(call, max) ==
    LET r == space(nodes, edges, parameters, call)
    IN  /\ r.stored => Len(created) < max
        /\ edges' = r.edges
        /\ parameters' = r.parameters
        /\ created' = IF r.stored
                      THEN Append(created, [key |-> Compound(call.source, call.target),
                                            kind |-> "edge",
                                            optimizable |-> call.optimizable,
                                            err |-> r.err])
                      ELSE created
        /\ op' = "space"
        /\ err' = r.err
        /\ finesse' = <<>>
        /\ UNCHANGED <<nodes, grouper>>

-----------------------------------------------------------------------------
(* differometor_to_finesse *)

\* differometor.components.DEFAULT_PROPERTIES, the registry of the kinds'
\* default records
DEFAULT_PROPERTIES == default_properties

port_translation ==
    [mirror |-> [left |-> "p1", right |-> "p2"],
     laser |-> [left |-> "p1", right |-> "p1"],
     squeezer |-> [left |-> "p1", right |-> "p1"],
     beamsplitter |-> [left |-> "p1", top |-> "p2", right |-> "p3", bottom |-> "p4"],
     directional_beamsplitter |->
         [left |-> "p1", top |-> "p2", right |-> "p3", bottom |-> "p4"],
     nothing |-> [left |-> "p1", right |-> "p2"]]

direction_translation == [in |-> "i", out |-> "o"]

\* port_translation[component][port]: the port code, or KeyError
PortCode(component, port) ==
    IF component \in DOMAIN port_translation
       /\ Len(port) = 1
       /\ port[1] \in DOMAIN port_translation[component]
    THEN [err |-> "ok", code |-> port_translation[component][port[1]]]
    ELSE [err |-> "KeyError", code |-> ""]

\* direction_translation[direction]
DirectionCode(direction) ==
    IF Len(direction) = 1 /\ direction[1] \in DOMAIN direction_translation
    THEN [err |-> "ok", code |-> direction_translation[direction[1]]]
    ELSE [err |-> "KeyError", code |-> ""]

Raise(e) == [err |-> e, lines |-> <<>>]
Emit(line) == [err |-> "ok", lines |-> <<line>>]

\* the body of the loop over setup.nodes: the statement of one node (a
\* line is the tuple of its fields; numbers stay rationals), no statement
\* for a kind the if/elif chain does not name, or the KeyError of a
\* missing attribute or table entry
NodeStatement(ns, node, data) ==
    LET pd == Merge(DEFAULT_PROPERTIES[data.component], data.properties)
        l == pd["loss"]
        r == RMul(pd["reflectivity"], RSub(One, l))
        t == RSub(RSub(One, r), l)
    IN  CASE data.component = "frequency" -> Emit(<<"fsig", pd["frequency"]>>)
          [] data.component = "laser" -> Emit(<<"l", node, pd["power"], pd["phase"]>>)
          [] data.component = "squeezer" -> Emit(<<"sq", node, pd["db"], pd["angle"]>>)
          [] data.component = "mirror" -> Emit(<<"m", node, r, t, l, pd["tuning"]>>)
          [] data.component = "beamsplitter" ->
                 Emit(<<"bs", node, r, t, l, pd["tuning"], pd["alpha"]>>)
          [] data.component = "free_mass" ->
                 IF data.target = None THEN Raise("KeyError")
                 ELSE Emit(<<"free_mass", node, data.target, "mech", pd["mass"]>>)
          [] data.component = "signal" ->
                 IF data.target = None THEN Raise("KeyError")
                 ELSE IF data.target_property = <<"frequency">>
                 THEN Emit(<<"sgen", node, data.target, "frq.i", pd["amplitude"], pd["phase"]>>)
                 ELSE IF data.target_property = <<"amplitude">>
                 THEN Emit(<<"sgen", node, data.target, "amp.i", "sqrt", pd["phase"]>>)
                 ELSE Emit(<<"sgen", node, data.target, "h", pd["amplitude"], pd["phase"]>>)
          [] data.component = "qnoised" ->
                 IF data.target = None \/ data.target \notin Keys(ns)
                    \/ data.port = None \/ data.direction = None
                 THEN Raise("KeyError")
                 ELSE LET port == PortCode(Get(ns, data.target).component, data.port)
                          direction == DirectionCode(data.direction)
                      IN  IF port.err # "ok" THEN Raise(port.err)
                          ELSE IF direction.err # "ok" THEN Raise(direction.err)
                          ELSE Emit(<<"qnoised", node, data.target, port.code,
                                      direction.code>>)
          [] data.component = "directional_beamsplitter" -> Emit(<<"dbs", node>>)
          [] data.component = "nothing" -> Emit(<<"nothing", node>>)
          [] OTHER -> [err |-> "ok", lines |-> <<>>]

\* the body of the loop over setup.edges
EdgeStatement(ns, source, target, data) ==
    LET pd == Merge(DEFAULT_PROPERTIES["space"], data.properties)
        source_port == PortCode(Get(ns, source).component, data.source_port)
        target_port == PortCode(Get(ns, target).component, data.target_port)
    IN  IF source_port.err # "ok" THEN Raise(source_port.err)
        ELSE IF target_port.err # "ok" THEN Raise(target_port.err)
        ELSE Emit(<<"s", Compound(source, target), source, source_port.code,
                    target, target_port.code, pd["length"], pd["refractive_index"]>>)

\* the statements of nodes i.. in insertion order, up to the first raise
RECURSIVE NodeLoop(_, _)
NodeLoop(ns, i) ==
    IF i > Len(ns) THEN [err |-> "ok", lines |-> <<>>]
    ELSE LET h == NodeStatement(ns, ns[i].key, ns[i].data)
         IN  IF h.err # "ok" THEN h
             ELSE LET t == NodeLoop(ns, i + 1)
                  IN  [err |-> t.err, lines |-> h.lines \o t.lines]

RECURSIVE EdgeLoop(_, _, _)
EdgeLoop(ns, es, i) ==
    IF i > Len(es) THEN [err |-> "ok", lines |-> <<>>]
    ELSE LET h == EdgeStatement(ns, es[i].key[1], es[i].key[2], es[i].data)
         IN  IF h.err # "ok" THEN h
             ELSE LET t == EdgeLoop(ns, es, i + 1)
                  IN  [err |-> t.err, lines |-> h.lines \o t.lines]

\* the blank line between the node and the edge statements
Blank == <<>>

\* the returned string as the sequence of its lines, or the error raised
differometor_to_finesse(ns, es) ==
    LET n == NodeLoop(ns, 1)
        e == EdgeLoop(ns, es, 1)
    IN  IF n.err # "ok" THEN Raise(n.err)
        ELSE IF e.err # "ok" THEN Raise(e.err)
        ELSE [err |-> "ok", lines |-> n.lines \o <<Blank>> \o e.lines]

\* one call differometor_to_finesse(S)
Serialize ==
    LET r == differometor_to_finesse(nodes, edges)
    IN  /\ finesse' = IF r.err = "ok" THEN r.lines ELSE <<>>
        /\ op' = "differometor_to_finesse"
        /\ err' = r.err
        /\ UNCHANGED <<nodes, edges, parameters, created, grouper>>

-----------------------------------------------------------------------------
(* The callers' calls under Spec: references, enumerated attributes, ports *)

Left == <<"left">>
Right == <<"right">>
Top == <<"top">>
Out == <<"out">>
PyTrue == <<"True">>

\* the targets tried: nodes, a missing node, the edge a_a, pseudo-properties
\* of a present and of a missing node, a name of three segments
Targets ==
    {NameA, NameB, NameC, <<"a", "a">>, <<"a", "amplitude">>,
     <<"c", "frequency">>, <<"a", "b", "a">>}

AddCalls ==
    {Plain("laser", n, o, EmptyProps) : n \in {NameA, NameB}, o \in BOOLEAN}
    \cup {AddCall("signal", NameB, TRUE, t, None, None, None, None, None, EmptyProps) :
            t \in Targets}
    \cup {AddCall("qhd", NameB, TRUE, None, None, None, None, d[1], d[2], EmptyProps) :
            d \in {<<NameA, None>>, <<NameA, NameA>>, <<NameB, None>>,
                   <<NameC, None>>, <<NameA, NameC>>}}
    \cup {AddCall("qnoised", NameB, TRUE, NameA, e[1], e[2], e[3], None, None, EmptyProps) :
            e \in {<<Left, Out, PyTrue>>, <<<<"up">>, Out, PyTrue>>,
                   <<Left, <<"sideways">>, PyTrue>>, <<Left, Out, <<"maybe">>>>,
                   <<Top, None, None>>}}
    \cup {Plain("laser", <<"a", "b">>, TRUE, EmptyProps),
          Plain("prism", NameA, TRUE, EmptyProps),
          Plain("laser", NameA, TRUE, Prop1("colour", One)),
          Plain("mirror", NameA, TRUE, Prop2("reflectivity", Half, "transmissivity", Half))}

SpaceCalls ==
    {SpaceCall(e[1], e[2], p[1], p[2], p[3], EmptyProps) :
        e \in {<<NameA, NameA>>, <<NameA, NameB>>, <<NameA, NameC>>, <<NameC, NameA>>},
        p \in {<<TRUE, Right, Left>>, <<FALSE, Top, Right>>, <<TRUE, <<"up">>, Left>>}}
    \cup {SpaceCall(NameA, NameA, TRUE, Right, Left, Prop1("colour", One))}

AddStep == \E call \in AddCalls : Add(call, MaxCalls)

SpaceStep == \E call \in SpaceCalls : Space(call, MaxCalls)

Next == AddStep \/ SpaceStep

Spec == Init /\ [][Next]_vars

-----------------------------------------------------------------------------
(* The callers' calls under SpecSchema: kinds and properties *)

Both == Prop2("reflectivity", Half, "transmissivity", Half)

Whole(component) == [j \in DOMAIN default_properties[component] |-> Half]

SchemaAddCalls ==
    {Plain(k, NameA, TRUE, EmptyProps) : k \in Kinds \cup {"prism"}}
    \cup {Plain(k, NameA, TRUE, Prop1("colour", Half)) : k \in {"laser", "detector", "mirror"}}
    \cup {Plain("mirror", NameA, TRUE, p) :
            p \in {Prop1("transmissivity", Half),
                   Prop2("loss", Half, "transmissivity", Half),
                   Prop2("loss", Half, "reflectivity", Half),
                   Prop2("loss", One, "reflectivity", Half),
                   Prop2("transmissivity", Half, "colour", Half),
                   Whole("mirror")}}
    \cup {Plain("beamsplitter", NameB, FALSE, p) :
            p \in {Prop1("transmissivity", One), Prop1("alpha", Half)}}
    \cup {AddCall(k, x[1], x[2], x[3], x[4], None, None, None, None, Both) :
            k \in {"mirror", "beamsplitter"},
            x \in {<<NameA, TRUE, None, None>>, <<<<"a", "b">>, TRUE, None, None>>,
                   <<NameA, FALSE, NameC, <<"up">>>>, <<NameB, TRUE, NameA, Left>>}}
    \cup {Plain("laser", NameA, TRUE, p) : p \in {Prop1("power", Half), Whole("laser")}}
    \cup {Plain("laser", <<"a", "b">>, TRUE, Prop1("colour", Half))}

SchemaSpaceCalls ==
    {SpaceCall(NameA, NameA, TRUE, Right, Left, p) :
        p \in {EmptyProps, Prop1("length", Half), Prop1("colour", Half)}}
    \cup {SpaceCall(NameA, NameB, FALSE, Right, Left, Whole("space")),
          SpaceCall(NameB, NameC, TRUE, Right, Left, EmptyProps)}

SchemaAddStep == \E call \in SchemaAddCalls : Add(call, MaxSchemaCalls)

SchemaSpaceStep == \E call \in SchemaSpaceCalls : Space(call, MaxSchemaCalls)

SchemaNext == SchemaAddStep \/ SchemaSpaceStep \/ Serialize

SpecSchema == Init /\ [][SchemaNext]_vars

-----------------------------------------------------------------------------
(* constrain_inter_grid_cell_spaces *)

\* sub in s, on strings kept as character sequences
In(sub, s) ==
    \E i \in 1..(Len(s) - Len(sub) + 1) : SubSeq(s, i, i + Len(sub) - 1) = sub

\* s.split('_')[0]
Split0(s) ==
    IF \E i \in 1..Len(s) : s[i] = "_"
    THEN SubSeq(s, 1, (CHOOSE i \in 1..Len(s) :
                           s[i] = "_" /\ \A j \in 1..(i - 1) : s[j] # "_") - 1)
    ELSE s

\* the substrings the branches test for
center == <<"c", "e", "n", "t", "e", "r">>
boundary == <<"b", "o", "u", "n", "d", "a", "r", "y">>
MR == <<"m", "r">>
ML == <<"m", "l">>
MT == <<"m", "t">>
MB == <<"m", "b">>
Underscore == <<"_">>

\* [component_name, property_name]
Pair(component_name, property_name) ==
    [component_name |-> component_name, property_name |-> property_name]

\* an element of constrained_pairs: one pair (list FALSE, one member) or a
\* list of pairs (list TRUE)
Single(pair) == [list |-> FALSE, members |-> <<pair>>]
Group(pairs) == [list |-> TRUE, members |-> pairs]

\* constrained_pair_dict[key].append(pair) on a defaultdict(list)
AppendTo(d, key, pair) ==
    IF key \in Keys(d)
    THEN [d EXCEPT ![IndexOf(d, key)].data = Append(@, pair)]
    ELSE Append(d, [key |-> key, data |-> <<pair>>])

\* the body of the loop over the filtered pairs; st holds constrained_pairs,
\* the two dicts and the error raised
Sort(st, pair) ==
    LET component_name == pair.component_name
        first == Split0(component_name)
        single == [st EXCEPT !.constrained_pairs = Append(@, Single(pair))]
    IN  IF pair.property_name = "length"
        THEN IF In(center, component_name) \/ In(boundary, component_name)
             THEN st
             ELSE IF In(MR, component_name) /\ In(Underscore \o ML, component_name)
             THEN IF Len(first) < 1
                  THEN [st EXCEPT !.err = "IndexError"]
                  ELSE [st EXCEPT !.horizontal =
                            AppendTo(@, <<first[Len(first)]>>, pair)]
             ELSE IF In(MT, component_name) /\ In(Underscore \o MB, component_name)
             THEN IF Len(first) < 2
                  THEN [st EXCEPT !.err = "IndexError"]
                  ELSE [st EXCEPT !.vertical =
                            AppendTo(@, <<first[Len(first) - 1]>>, pair)]
             ELSE single
        ELSE single

\* the loop over pairs[lo..hi] in list order, the state threaded through
\* its two halves; a raise ends it
RECURSIVE SortLoop(_, _, _, _)
SortLoop(pairs, lo, hi, st) ==
    IF lo > hi \/ st.err # "ok" THEN st
    ELSE IF lo = hi THEN Sort(st, pairs[lo])
    ELSE LET mid == (lo + hi) \div 2
             half == SortLoop(pairs, lo, mid, st)
         IN  SortLoop(pairs, mid + 1, hi, half)

\* [constrained_pair_dict[key] for key in constrained_pair_dict]
Values(d) == [i \in 1..Len(d) |-> Group(d[i].data)]

\* parameter[0] if len(parameter) == 1 else parameter: a pair has two
\* elements and stays, a list of one pair becomes that pair
Unwrap(e) == IF e.list /\ Len(e.members) = 1 THEN Single(e.members[1]) ELSE e

\* the list returned, or the error raised
constrain_inter_grid_cell_spaces(pairs, optimized) ==
    LET filtered == SelectSeq(pairs, LAMBDA p : p.property_name \in optimized)
        st == SortLoop(filtered, 1, Len(filtered),
                       [constrained_pairs |-> <<>>, horizontal |-> <<>>,
                        vertical |-> <<>>, err |-> "ok"])
        all == st.constrained_pairs \o Values(st.horizontal) \o Values(st.vertical)
        nonempty == SelectSeq(all, LAMBDA e : e.members # <<>>)
    IN  IF st.err # "ok"
        THEN [err |-> st.err, constrained_pairs |-> <<>>]
        ELSE [err |-> "ok",
              constrained_pairs |-> [i \in 1..Len(nonempty) |-> Unwrap(nonempty[i])]]

\* one call constrain_inter_grid_cell_spaces(component_property_pairs,
\* optimized_properties)
Constrain ==
    LET r == constrain_inter_grid_cell_spaces(component_property_pairs, optimized_properties)
    IN  /\ constrained_pairs' = r.constrained_pairs
        /\ op' = "constrain_inter_grid_cell_spaces"
        /\ err' = r.err
        /\ UNCHANGED <<nodes, edges, parameters, created, finesse>>
        /\ UNCHANGED <<component_property_pairs, optimized_properties, size>>

-----------------------------------------------------------------------------
(* The argument lists under SpecConstrain *)

\* pairs per hand-made argument list
MaxPairs == 2
\* grid sizes of the generated argument lists
MaxSize == 10

Digit(d) == <<"0", "1", "2", "3", "4", "5", "6", "7", "8", "9">>[d + 1]

\* f"{n}"
RECURSIVE Decimal(_)
Decimal(n) == IF n < 10 THEN <<Digit(n)>> ELSE Decimal(n \div 10) \o <<Digit(n % 10)>>

\* f"{prefix}{x}{y}"
Cell(prefix, x, y) == prefix \o Decimal(x) \o Decimal(y)

\* the entries space(source, target) appends to the parameter list
SpaceEntries(source, target) ==
    <<Pair(source \o Underscore \o target, "length"),
      Pair(source \o Underscore \o target, "refractive_index")>>

\* the entries of the spaces the connecting loop of cell_grid makes at (x, y)
Connect(x, y) ==
    (IF x > 1 THEN SpaceEntries(Cell(MT, x, y), Cell(MB, x - 1, y)) ELSE <<>>)
    \o (IF y > 1 THEN SpaceEntries(Cell(MR, x, y - 1), Cell(ML, x, y)) ELSE <<>>)

\* for x in range(1, n+1): for y in range(1, n+1): ..., over the cells
\* lo..hi of that order
RECURSIVE ConnectLoop(_, _, _)
ConnectLoop(n, lo, hi) ==
    IF lo > hi THEN <<>>
    ELSE IF lo = hi THEN Connect(((lo - 1) \div n) + 1, ((lo - 1) % n) + 1)
    ELSE ConnectLoop(n, lo, (lo + hi) \div 2) \o ConnectLoop(n, (lo + hi) \div 2 + 1, hi)

\* the part of uifo(n)'s parameter list that its inter-cell spaces contribute
inter_cell_parameters(n) == ConnectLoop(n, 1, n * n)

\* the pairs of the hand-made lists: inter-cell spaces of two columns and of
\* one row, a space inside a cell, a space to a boundary mirror, a node
\* parameter, and the space between nodes named x and mbmt
PairPool ==
    {Pair(Cell(MR, 1, 1) \o Underscore \o Cell(ML, 1, 2), "length"),
     Pair(Cell(MR, 2, 1) \o Underscore \o Cell(ML, 2, 2), "length"),
     Pair(Cell(MR, 1, 2) \o Underscore \o Cell(ML, 1, 3), "length"),
     Pair(Cell(MT, 2, 1) \o Underscore \o Cell(MB, 1, 1), "length"),
     Pair(Cell(MR, 1, 1) \o Underscore \o Cell(ML, 1, 2), "refractive_index"),
     Pair(Cell(center, 1, 1) \o Underscore \o Cell(ML, 1, 1), "length"),
     Pair(Cell(<<"m">>, 1, 0) \o Underscore \o Cell(ML, 1, 1), "length"),
     Pair(Cell(MR, 1, 1), "reflectivity"),
     Pair(<<"x">> \o Underscore \o MB \o MT, "length")}

RECURSIVE Lists(_, _)
Lists(S, n) ==
    IF n = 0 THEN {<<>>}
    ELSE Lists(S, n - 1) \cup {Append(l, p) : l \in Lists(S, n - 1), p \in S}

\* the optimized_properties tried
OptimizedSets == {{"length"}, {"length", "refractive_index", "reflectivity"}, {"reflectivity"}}

InitConstrain ==
    /\ nodes = <<>>
    /\ edges = <<>>
    /\ parameters = <<>>
    /\ created = <<>>
    /\ op = "init"
    /\ err = "ok"
    /\ finesse = <<>>
    /\ constrained_pairs = <<>>
    /\ optimized_properties \in OptimizedSets
    /\ \/ /\ size = 0
          /\ component_property_pairs \in Lists(PairPool, MaxPairs)
       \/ /\ size \in 1..MaxSize
          /\ component_property_pairs = inter_cell_parameters(size)

ConstrainNext == Constrain

SpecConstrain == InitConstrain /\ [][ConstrainNext]_vars

-----------------------------------------------------------------------------
(* Construction order *)

\* the index in created of the latest storing call for key k
LastCreated(k) ==
    CHOOSE i \in 1..Len(created) :
        created[i].key = k /\ \A j \in (i + 1)..Len(created) : created[j].key # k

\* the keys stored by the calls before the i-th storing call
EarlierKeys(i) == {created[j].key : j \in 1..(i - 1)}

\* the entities a node record refers to
Referents(d) == {d.target, d.detector1, d.detector2} \ {None}

\* the setup was built by calls that all returned
BuiltBySuccessfulCalls == \A i \in 1..Len(created) : created[i].err = "ok"

-----------------------------------------------------------------------------
(* C1 *)

\* C1: add and space are all-or-nothing: a call that raises an error leaves
\* the node map, the edge map and the parameter list exactly as they were.
C1_AllOrNothing ==
    [][err' # "ok" =>
         (nodes' = nodes /\ edges' = edges /\ parameters' = parameters)]_vars

-----------------------------------------------------------------------------
(* C2 *)

\* the entity a target argument names: the head node of a pseudo-property
\* reference, else the node or the edge of that name
Referent(target) ==
    IF HasSep(target) /\ Tail0(target) \in {<<"amplitude">>, <<"frequency">>}
    THEN Head0(target)
    ELSE target

Exists(ns, es, r) ==
    \/ r \in Keys(ns)
    \/ Len(r) = 2 /\ <<Head0(r), Tail0(r)>> \in Keys(es)

CallReferents(call) ==
    {Referent(t) : t \in {call.target} \ {None}}
    \cup ({call.detector1, call.detector2} \ {None})

\* C2: reference resolution is order-sensitive: an add that returned had
\* every referent of its node constructed by an earlier call (a reference to
\* something not yet constructed fails), and a call whose referents all
\* exist does not fail with an unresolved-reference error.
C2_OrderSensitive ==
    /\ (op = "add" /\ err = "ok") =>
           Referents(Get(nodes, created[Len(created)].key))
               \subseteq EarlierKeys(Len(created))
    /\ \A call \in AddCalls :
           (\A r \in CallReferents(call) : Exists(nodes, edges, r)) =>
               add(nodes, edges, parameters, call).err # "UnresolvedReferenceError"
    /\ \A call \in SpaceCalls :
           LET r == space(nodes, edges, parameters, call)
           IN  (r.err = "UnresolvedReferenceError")
                   <=> ~({call.source, call.target} \subseteq Keys(nodes))

-----------------------------------------------------------------------------
(* C3 *)

\* C3: every stored target, detector1 and detector2 refers to a node or edge
\* created strictly earlier than the referring node; no node refers to
\* itself.
C3_BackwardReferences ==
    \A i \in 1..Len(nodes) :
        \A r \in Referents(nodes[i].data) :
            /\ r # nodes[i].key
            /\ r \in EarlierKeys(LastCreated(nodes[i].key))

-----------------------------------------------------------------------------
(* C6 *)

SameStructure(d, e) ==
    /\ d.component = e.component
    /\ DOMAIN d.properties = DOMAIN e.properties
    /\ d.port = e.port
    /\ d.target = e.target
    /\ d.target_property = e.target_property
    /\ d.detector1 = e.detector1
    /\ d.detector2 = e.detector2

\* C6: nodes and edges are created once and never structurally mutated: a
\* call changes neither the kind, the property key set, the port nor the
\* target, target_property and detector attributes of a node in the store,
\* nor the ports and property key set of an edge in the store, and node
\* names stay unique.  Checked on the calls that return.
C6_NeverMutated ==
    [][err' = "ok" =>
       /\ \A i \in 1..Len(nodes) :
              /\ nodes[i].key \in Keys(nodes')
              /\ SameStructure(nodes[i].data, Get(nodes', nodes[i].key))
       /\ \A i \in 1..Len(edges) :
              /\ edges[i].key \in Keys(edges')
              /\ Get(edges', edges[i].key).source_port = edges[i].data.source_port
              /\ Get(edges', edges[i].key).target_port = edges[i].data.target_port
              /\ DOMAIN Get(edges', edges[i].key).properties
                     = DOMAIN edges[i].data.properties
       /\ Cardinality(Keys(nodes')) = Len(nodes')]_vars

-----------------------------------------------------------------------------
(* C7 *)

\* the (entity, property) pairs of the entities of the store that were
\* added with optimizable true; signal and frequency nodes carry no
\* parameters
OptimizableEntries ==
    UNION {{<<nodes[i].key, k>> : k \in DOMAIN default_properties[nodes[i].data.component]} :
             i \in {j \in 1..Len(nodes) :
                      /\ created[LastCreated(nodes[j].key)].optimizable
                      /\ nodes[j].data.component \notin {"signal", "frequency"}}}
    \cup UNION {{<<Compound(edges[i].key[1], edges[i].key[2]), k>> :
                   k \in DOMAIN default_properties["space"]} :
             i \in {j \in 1..Len(edges) :
                      created[LastCreated(Compound(edges[j].key[1],
                                                   edges[j].key[2]))].optimizable}}

\* C7: the parameter list holds exactly one entry per property of every
\* node (signal and frequency nodes apart) and edge of the store added with
\* optimizable true (so its length is
\* the sum of their schema sizes), no entry of an entity that is not in the
\* store, no entry twice, in the order in which the entities were
\* constructed.
C7_ParameterList ==
    /\ {parameters[i] : i \in 1..Len(parameters)} = OptimizableEntries
    /\ Len(parameters) = Cardinality(OptimizableEntries)
    /\ \A i, j \in 1..Len(parameters) :
           i < j => LastCreated(parameters[i][1]) <= LastCreated(parameters[j][1])

-----------------------------------------------------------------------------
(* C10 *)

\* C10: every stored edge's source_port and target_port are in {left, top,
\* right, bottom}, and every stored node's port, direction and auxiliary,
\* when present, are in {left, top, right, bottom}, {in, out} and
\* {true, false}.
C10_Enumerations ==
    /\ \A i \in 1..Len(edges) :
           /\ edges[i].data.source_port \in Ports
           /\ edges[i].data.target_port \in Ports
    /\ \A i \in 1..Len(nodes) :
           /\ nodes[i].data.port \in Ports \cup {None}
           /\ nodes[i].data.direction \in Directions \cup {None}
           /\ nodes[i].data.auxiliary \in Booleans \cup {None}

-----------------------------------------------------------------------------
(* C4 *)

\* C4: schema closure: every stored node's property mapping has exactly the
\* key set of its kind's default record and every stored edge's property
\* mapping has exactly the key set {length, refractive_index}.
C4_SchemaClosure ==
    /\ \A i \in 1..Len(nodes) :
           DOMAIN nodes[i].data.properties
               = DOMAIN default_properties[nodes[i].data.component]
    /\ \A i \in 1..Len(edges) :
           DOMAIN edges[i].data.properties = {"length", "refractive_index"}

\* a mirror stored from transmissivity 1/2 at the default loss, and an edge
\* stored with a supplied length
C4_Witness ==
    /\ \E i \in 1..Len(nodes) :
           /\ nodes[i].data.component = "mirror"
           /\ nodes[i].data.properties["reflectivity"] = Rat(99999, 199999)
    /\ \E i \in 1..Len(edges) : edges[i].data.properties["length"] = Half

-----------------------------------------------------------------------------
(* C5 *)

\* the property records tried on kind k: every subset of its default names,
\* and the small ones with an unknown name or transmissivity added, at
\* value 1/2, and the same with loss 1
Tried(k) ==
    LET dk == DOMAIN default_properties[k]
        small == {{}} \cup {{j} : j \in dk}
        keys == (SUBSET dk)
                \cup {x \cup {"colour"} : x \in small}
                \cup {x \cup {"transmissivity"} : x \in small}
                \cup {{"transmissivity", "colour"}}
    IN  {[j \in ks |-> Half] : ks \in keys}
        \cup {[j \in ks |-> IF j = "loss" THEN One ELSE Half] : ks \in keys}

C5Calls == UNION {{Plain(k, NameA, TRUE, p) : p \in Tried(k)} : k \in Kinds}

\* C5 as stated: a property name outside the kind's default record always
\* fails with a schema-mismatch error, and any subset of the default names
\* always succeeds.
C5_Original ==
    \A call \in C5Calls :
        LET r == add(nodes, edges, parameters, call)
        IN  IF DOMAIN call.properties \subseteq DOMAIN default_properties[call.component]
            THEN r.err = "ok"
            ELSE r.err = "SchemaMismatchError"

\* the loss the pre-pass divides by
LossOf(call) ==
    IF "loss" \in DOMAIN call.properties
    THEN call.properties["loss"]
    ELSE default_properties[call.component]["loss"]

\* C5 amended: for every kind and a separator-free name, a property name
\* outside the default record makes add fail and store nothing, with the
\* schema-mismatch error unless the mirror/beamsplitter pre-pass raises
\* first (conflict; division by zero at loss 1), except that transmissivity
\* without reflectivity is accepted for mirror and beamsplitter and stored
\* as reflectivity (1 - t - loss) / (1 - loss); any subset of the default
\* names succeeds (but reflectivity or transmissivity at loss 1 divides by
\* zero), storing the supplied values over the defaults, reflectivity
\* divided by 1 - loss, and the empty subset stores the default record.
C5_Amended ==
    \A call \in C5Calls :
        LET r == add(nodes, edges, parameters, call)
            k == call.component
            ks == DOMAIN call.properties
            dk == DOMAIN default_properties[k]
            mb == k \in {"mirror", "beamsplitter"}
            stored == Get(r.nodes, call.name).properties
            failed(e) == r.err = e /\ ~r.stored /\ r.nodes = nodes
                         /\ r.parameters = parameters
        IN  IF mb /\ {"reflectivity", "transmissivity"} \subseteq ks
            THEN failed("ConflictError")
            ELSE IF mb /\ ks \cap {"reflectivity", "transmissivity"} # {}
                    /\ LossOf(call) = One
            THEN failed("ZeroDivisionError")
            ELSE IF ~((ks \ (IF mb THEN {"transmissivity"} ELSE {})) \subseteq dk)
            THEN failed("SchemaMismatchError")
            ELSE /\ r.err = "ok"
                 /\ r.stored
                 /\ DOMAIN stored = dk
                 /\ \A j \in dk \ {"reflectivity"} :
                        stored[j] = IF j \in ks THEN call.properties[j]
                                    ELSE default_properties[k][j]
                 /\ "reflectivity" \in dk =>
                        stored["reflectivity"] =
                            IF "transmissivity" \in ks
                            THEN RDiv(RSub(RSub(One, call.properties["transmissivity"]),
                                           LossOf(call)),
                                      RSub(One, LossOf(call)))
                            ELSE IF "reflectivity" \in ks
                            THEN RDiv(call.properties["reflectivity"],
                                      RSub(One, LossOf(call)))
                            ELSE default_properties[k]["reflectivity"]
                 /\ ks = {} => stored = default_properties[k]

\* an add with an unknown property name has just been refused, on a store
\* that holds a beamsplitter built from transmissivity 1 and a node built
\* from a subset of its default names
C5_Witness ==
    /\ op = "add"
    /\ err = "SchemaMismatchError"
    /\ \E i \in 1..Len(nodes) :
           /\ nodes[i].data.component = "beamsplitter"
           /\ nodes[i].data.properties["reflectivity"] = Rat(-1, 199999)
    /\ \E i \in 1..Len(nodes) :
           /\ nodes[i].data.component \in {"laser", "mirror"}
           /\ nodes[i].data.properties # default_properties[nodes[i].data.component]

-----------------------------------------------------------------------------
(* C8 *)

\* the other arguments tried with reflectivity and transmissivity together
ConflictCalls ==
    {AddCall(k, n, o, x[1], x[2], x[3], x[4], x[5], x[6], p) :
        k \in {"mirror", "beamsplitter"},
        n \in {NameA, NameB, <<"a", "b">>},
        o \in BOOLEAN,
        x \in {<<None, None, None, None, None, None>>,
               <<NameA, Left, Out, PyTrue, NameA, NameA>>,
               <<NameC, <<"up">>, <<"sideways">>, <<"maybe">>, NameC, NameC>>,
               <<<<"a", "a">>, None, Out, None, None, NameC>>,
               <<<<"c", "amplitude">>, Top, None, None, NameB, None>>},
        p \in {Both, Merge(Both, Prop1("loss", One)), Merge(Both, Prop1("colour", Half))}}

\* C8 as stated: reflectivity and transmissivity together always fail with
\* the conflict error, whatever the other arguments, and store nothing.
C8_Original ==
    \A call \in ConflictCalls :
        LET r == add(nodes, edges, parameters, call)
        IN  /\ r.err = "ConflictError"
            /\ ~r.stored /\ r.nodes = nodes /\ r.parameters = parameters

\* C8 amended: reflectivity and transmissivity together always fail and
\* store nothing, whatever the other arguments: with the conflict error
\* when the name has no separator, with the naming error when it has one.
C8_Amended ==
    \A call \in ConflictCalls :
        LET r == add(nodes, edges, parameters, call)
        IN  /\ r.err = IF HasSep(call.name) THEN "NamingError" ELSE "ConflictError"
            /\ ~r.stored /\ r.nodes = nodes /\ r.parameters = parameters

\* a conflicting add has just been refused on a store that holds nodes
C8_Witness ==
    /\ op = "add"
    /\ err = "ConflictError"
    /\ Len(nodes) = 2
    /\ Len(parameters) > 0

-----------------------------------------------------------------------------
(* C9 *)

Statements(lines) == {i \in 1..Len(lines) : lines[i] # Blank}

\* C9: for a setup built by successful calls the serializer emits one
\* statement per node, a blank line, then one statement per edge: the number
\* of statements before the blank line is the number of nodes, whatever the
\* nodes' kinds (space, the kind of the edges, apart).
C9_OneStatementPerEntity ==
    (/\ op = "differometor_to_finesse" /\ err = "ok" /\ BuiltBySuccessfulCalls
     /\ \A i \in 1..Len(nodes) : nodes[i].data.component # "space") =>
        /\ Len(finesse) = Len(nodes) + 1 + Len(edges)
        /\ Statements(finesse) = (1..Len(finesse)) \ {Len(nodes) + 1}

-----------------------------------------------------------------------------
(* C11 *)

\* the pairs of a returned list, entry by entry
RECURSIVE Flat(_, _)
Flat(entries, i) ==
    IF i > Len(entries) THEN <<>> ELSE entries[i].members \o Flat(entries, i + 1)

\* the number of occurrences of p in the list l
Count(p, l) == Cardinality({i \in 1..Len(l) : l[i] = p})

\* the input pairs whose property is in optimized_properties
Filtered ==
    SelectSeq(component_property_pairs,
              LAMBDA p : p.property_name \in optimized_properties)

\* C11: constrain_inter_grid_cell_spaces partitions its filtered input
\* exactly: for every parameter list and every optimized_properties it
\* returns a list in which each input pair whose property is in
\* optimized_properties appears exactly once (as often as in the input),
\* as a single entry or as a member of one group, and nothing else appears;
\* no parameter is dropped, lost or duplicated.
C11_Partition ==
    op = "constrain_inter_grid_cell_spaces" =>
        /\ err = "ok"
        /\ Len(Flat(constrained_pairs, 1)) = Len(Filtered)
        /\ \A i \in 1..Len(Filtered) :
               Count(Filtered[i], Flat(constrained_pairs, 1))
                   = Count(Filtered[i], Filtered)

-----------------------------------------------------------------------------
(* C12 *)

\* the inter-cell spaces of a grid of size n, by the cell (x, y) at which
\* the connecting loop makes them
InterCellSpaces(n) ==
    {[orientation |-> "horizontal", x |-> x, y |-> y] : x \in 1..n, y \in 2..n}
    \cup {[orientation |-> "vertical", x |-> x, y |-> y] : x \in 2..n, y \in 1..n}

\* mr{x}{y-1}_ml{x}{y} and mt{x}{y}_mb{x-1}{y}
SpaceName(s) ==
    IF s.orientation = "horizontal"
    THEN Cell(MR, s.x, s.y - 1) \o Underscore \o Cell(ML, s.x, s.y)
    ELSE Cell(MT, s.x, s.y) \o Underscore \o Cell(MB, s.x - 1, s.y)

\* the coordinate a space shares with the spaces parallel to it: the column
\* of a horizontal space, the row of a vertical one
Coordinate(s) == IF s.orientation = "horizontal" THEN s.y ELSE s.x

\* the index of the entry of the returned list that holds the pair, 0 if none
EntryOf(pair) ==
    LET holds(i) ==
            \E j \in 1..Len(constrained_pairs[i].members) :
                constrained_pairs[i].members[j] = pair
    IN  IF \E i \in 1..Len(constrained_pairs) : holds(i)
        THEN CHOOSE i \in 1..Len(constrained_pairs) : holds(i)
        ELSE 0

\* C12: among the length parameters of the inter-cell spaces generated for
\* any grid size, two parameters are in the same output group if and only
\* if they have the same orientation and the same row/column coordinate:
\* one group per coordinate value.
C12_GroupsByCoordinate ==
    (op = "constrain_inter_grid_cell_spaces" /\ size > 0
     /\ "length" \in optimized_properties) =>
        /\ err = "ok"
        /\ LET entry == [s \in InterCellSpaces(size) |->
                             EntryOf(Pair(SpaceName(s), "length"))]
           IN  \A s, t \in InterCellSpaces(size) :
                   /\ entry[s] # 0
                   /\ (entry[s] = entry[t])
                          <=> (s.orientation = t.orientation
                               /\ Coordinate(s) = Coordinate(t))

-----------------------------------------------------------------------------
(* C13 *)

Amplitude == <<"amplitude">>
Frequency == <<"frequency">>

\* the adds tried on every store: targets naming nodes, the new node itself,
\* a missing node, edges, pseudo-properties, names of three segments
C13Calls ==
    {AddCall("signal", n, TRUE, t, None, None, None, None, None, EmptyProps) :
        n \in {NameA, NameB},
        t \in Targets \cup {<<"a", "b">>, <<"b", "amplitude">>, <<"a", "b", "frequency">>}}

\* C13: target resolution in add: a target containing the separator whose
\* last segment is amplitude or frequency requires its head to be an
\* existing node and stores target = head with target_property = that
\* segment; any other target containing the separator requires the whole
\* string to be the compound name of an existing edge and stores it
\* unchanged with no target_property; a target without the separator
\* requires an existing node and stores it with no target_property; no
\* other combination of stored target and target_property is reachable.
C13_TargetResolution ==
    /\ \A call \in C13Calls :
           LET r == add(nodes, edges, parameters, call)
               t == call.target
               d == Get(r.nodes, call.name)
           IN  r.err = "ok" =>
                   IF HasSep(t) /\ Tail0(t) \in {Amplitude, Frequency}
                   THEN /\ Head0(t) \in Keys(nodes)
                        /\ d.target = Head0(t)
                        /\ d.target_property = Tail0(t)
                   ELSE IF HasSep(t)
                   THEN /\ Len(t) = 2
                        /\ <<Head0(t), Tail0(t)>> \in Keys(edges)
                        /\ d.target = t
                        /\ d.target_property = None
                   ELSE /\ t \in Keys(nodes)
                        /\ d.target = t
                        /\ d.target_property = None
    /\ \A i \in 1..Len(nodes) :
           LET d == nodes[i].data
           IN  \/ d.target = None /\ d.target_property = None
               \/ /\ d.target_property \in {Amplitude, Frequency}
                  /\ d.target \in Keys(nodes)
               \/ /\ d.target_property = None
                  /\ Exists(nodes, edges, d.target)

-----------------------------------------------------------------------------
(* C14 *)

\* the adds tried on every store: every kind under both values of
\* optimizable, with the default record, a full record, and reflectivity or
\* transmissivity for the kinds with a pre-pass; signals with a target
C14AddCalls ==
    {Plain(k, n, o, p) :
        k \in Kinds, n \in {NameA, NameB}, o \in BOOLEAN, p \in {EmptyProps}}
    \cup {Plain(k, NameA, o, Whole(k)) : k \in Kinds, o \in BOOLEAN}
    \cup {Plain(k, NameA, o, Prop1(j, Half)) :
            k \in {"mirror", "beamsplitter"}, o \in BOOLEAN,
            j \in {"reflectivity", "transmissivity"}}
    \cup {AddCall(k, NameB, o, NameA, Left, Out, None, None, None, EmptyProps) :
            k \in {"signal", "qnoised", "free_mass"}, o \in BOOLEAN}

C14SpaceCalls ==
    {SpaceCall(NameA, n, o, Right, Left, p) :
        n \in {NameA, NameB}, o \in BOOLEAN,
        p \in {EmptyProps, Prop1("refractive_index", Half), Whole("space")}}

\* what a call appended to the parameter list (ps: the list before it)
Appended(ps, qs) == SubSeq(qs, Len(ps) + 1, Len(qs))

\* C14: parameter extraction by kind: a successful add of kind signal or
\* frequency appends nothing to the parameter list, whatever optimizable
\* is; a successful add of any other kind appends exactly one (name,
\* property) entry per property of the merged record when optimizable is
\* true and nothing when it is false; a successful space with optimizable
\* true appends exactly (source_target, length) and (source_target,
\* refractive_index).
C14_ParameterExtraction ==
    /\ \A call \in C14AddCalls :
           LET r == add(nodes, edges, parameters, call)
               merged == Get(r.nodes, call.name).properties
               appended == Appended(parameters, r.parameters)
           IN  r.err = "ok" =>
                   /\ SubSeq(r.parameters, 1, Len(parameters)) = parameters
                   /\ IF call.component \in {"signal", "frequency"}
                      THEN appended = <<>>
                      ELSE IF call.optimizable
                      THEN /\ Len(appended) = Cardinality(DOMAIN merged)
                           /\ {appended[i] : i \in 1..Len(appended)}
                                  = {<<call.name, k>> : k \in DOMAIN merged}
                      ELSE appended = <<>>
    /\ \A call \in C14SpaceCalls :
           LET r == space(nodes, edges, parameters, call)
               appended == Appended(parameters, r.parameters)
               name == Compound(call.source, call.target)
           IN  (r.err = "ok" /\ call.optimizable) =>
                   /\ SubSeq(r.parameters, 1, Len(parameters)) = parameters
                   /\ Len(appended) = 2
                   /\ {appended[i] : i \in 1..Len(appended)}
                          = {<<name, "length">>, <<name, "refractive_index">>}

\* a signal was added with optimizable true and a space between it and
\* itself after it: the parameter list holds the two entries of the space
\* and nothing of the signal
C14_Witness ==
    /\ op = "space"
    /\ err = "ok"
    /\ \E i \in 1..Len(nodes) :
           /\ nodes[i].data.component = "signal"
           /\ created[LastCreated(nodes[i].key)].optimizable
    /\ parameters = <<<<Compound(NameA, NameA), "length">>,
                      <<Compound(NameA, NameA), "refractive_index">>>>

-----------------------------------------------------------------------------
(* C15 *)

\* no node and no edge was assigned twice
BuiltOnce == Cardinality({created[i].key : i \in 1..Len(created)}) = Len(created)

\* C15: the serializer is total on constructed graphs: for every setup
\* reached by successful add and space calls, differometor_to_finesse
\* returns a string without raising.  Checked on the setups in which every
\* node and edge was constructed once.
C15_SerializerTotal ==
    (op = "differometor_to_finesse" /\ BuiltBySuccessfulCalls /\ BuiltOnce)
        => err = "ok"

====
